---------------------------- MODULE Spec2Model ----------------------------
(***************************************************************************)
(* Model of src/import.py: create_pdf_from_csv reads a CSV export (one row *)
(* per account, repeating groups of four cells per textbook) and writes    *)
(* one PDF per account.                                                    *)
(*                                                                         *)
(* Strings are sequences of one-character strings.  The file on disk is    *)
(* fixed in Init by its shape (rows, columns, first header cell); the      *)
(* cells of a data row are drawn when the loop reads that row              *)
(* (df.iloc[index]), which no later step reads again.                      *)
(***************************************************************************)
EXTENDS Integers, Sequences, FiniteSets

VARIABLES
    pc,             \* position in create_pdf_from_csv
    file,           \* the CSV file on disk: [nrows, ncols, header]
    csv_path,       \* result of get_file_path()
    output_folder,  \* result of get_folder_path()
    utf8_result,    \* outcome of the UTF-8 read ("none" before it)
    sjis_result,    \* outcome of the Shift-JIS read ("none" if never tried)
    df,             \* the DataFrame: [loaded, nrows, ncols]
    index,          \* loop variable of "for index in range(1, len(df))"
    row,            \* df.iloc[index]
    email,          \* row.iloc[0]
    pdf_filename,   \* sanitize_filename(account_name + suffix)
    textbook_data,  \* list of records of the current row
    col_index,      \* offset of the next window
    total_files,    \* counter of documents built
    skipped_rows,   \* counter of rows skipped
    files,          \* file names present in output_folder
    windows,        \* history: offsets of the windows evaluated in this row
    reads,          \* history: cell indices read by the segmenter in this row
    produced,       \* history: file names whose doc.build succeeded
    keysBuilt,      \* history: account keys whose doc.build succeeded
    summary,        \* the final report: <<total_files, skipped_rows>> or <<>>
    message,        \* kind of the last message printed
    s_in,           \* sanitize_filename: argument
    s_calls,        \* sanitize_filename: number of applications made
    s_out,          \* sanitize_filename(s_in)
    s_out2          \* sanitize_filename(sanitize_filename(s_in))

vars == <<pc, file, csv_path, output_folder, utf8_result, sjis_result, df,
          index, row, email, pdf_filename, textbook_data, col_index,
          total_files, skipped_rows, files, windows, reads, produced,
          keysBuilt, summary, message, s_in, s_calls, s_out, s_out2>>

runVars == <<pc, file, csv_path, output_folder, utf8_result, sjis_result, df,
             index, row, email, pdf_filename, textbook_data, col_index,
             total_files, skipped_rows, files, windows, reads, produced,
             keysBuilt, summary, message>>

sanVars == <<s_in, s_calls, s_out, s_out2>>

--------------------------------------------------------------------------
(* Bounds *)

MaxRows == 3       \* rows of the file (header included), batch runs
MaxCols == 5       \* columns of the file, batch runs
MaxSegCols == 9    \* columns of the file, single-data-row runs
MaxLen == 2        \* length of the strings given to sanitize_filename

--------------------------------------------------------------------------
(* Program constants and alphabets *)

W == 4                  \* "col_index += 4": cells per textbook group
FirstDataIndex == 1     \* "range(1, len(df))": row 0 is the title row

Whitespace == {" "}

\* the character class of re.sub in sanitize_filename
Forbidden == {"\\", "/", "*", "?", ":", "\"", "<", ">", "|"}

Chars == Forbidden \cup {"_", "a", "@", " ", "."}

\* "_ライセンス情報.pdf", one element per character
Suffix == <<"_", "ra", "i", "se", "n", "su", "jou", "hou", ".", "p", "d", "f">>

\* first cells of data rows
KeyCells == { <<>>, <<" ">>, <<"a">>, <<"a", "@", "x">>, <<"/", "@", "x">>,
              <<"_", "@", "x">>, <<"a", "@", "/", "@">> }

\* other cells of data rows
FieldCells == { <<>>, <<" ">>, <<" ", "u", " ">> }

HeaderCells == { <<>>, <<"a", "@", "x">> }

NoDf == [loaded |-> FALSE, nrows |-> 0, ncols |-> 0]

\* the rows of n cells a file can hold
Rows(n) == { <<k>> \o t : k \in KeyCells, t \in [1..(n - 1) -> FieldCells] }

--------------------------------------------------------------------------
(* Pure functions of the program *)

RECURSIVE LStrip(_)
LStrip(s) ==
    IF s = <<>> THEN <<>>
    ELSE IF Head(s) \in Whitespace THEN LStrip(Tail(s)) ELSE s

RECURSIVE RStrip(_)
RStrip(s) ==
    IF s = <<>> THEN <<>>
    ELSE IF s[Len(s)] \in Whitespace THEN RStrip(SubSeq(s, 1, Len(s) - 1))
    ELSE s

\* str.strip()
Strip(s) == RStrip(LStrip(s))

\* "row.iloc[i].strip() if row.iloc[i] else ''"
CellText(c) == IF c # <<>> THEN Strip(c) ELSE <<>>

\* row.iloc[i], i counted from 0
Cell(r, i) == r[i + 1]

\* "not email or not email.strip()"
EmailEmpty_NoStrip(e) == e = <<>>
EmailEmpty(e) == e = <<>> \/ Strip(e) = <<>>

\* email.split('@')[0]
RECURSIVE AccountName(_)
AccountName_NoSplit(e) == e
AccountName(e) ==
    IF e = <<>> THEN <<>>
    ELSE IF Head(e) = "@" THEN <<>>
    ELSE <<Head(e)>> \o AccountName(Tail(e))

\* re.sub(r'[\\/*?:"<>|]', '_', filename)
sanitize_filename_NoPipe(filename) ==
    [i \in 1..Len(filename) |->
        IF filename[i] \in (Forbidden \ {"|"}) THEN "_" ELSE filename[i]]
sanitize_filename(filename) ==
    [i \in 1..Len(filename) |->
        IF filename[i] \in Forbidden THEN "_" ELSE filename[i]]

\* "while col_index + 3 < len(row)"
HasFullWindow(c, n) == c + 3 < n

\* "col_index += 4"
NextColIndex_Three(c) == c + 3
NextColIndex(c) == c + W

\* "if textbook_name and user_id"
IsValidWindow_NeedsPass(name, id, pass, serial) ==
    name # <<>> /\ id # <<>> /\ pass # <<>>
IsValidWindow(name, id, pass, serial) == name # <<>> /\ id # <<>>

\* "if not textbook_data"
NoValidData_AtMostOne(td) == Len(td) <= 1
NoValidData(td) == td = <<>>

\* "if len(df) < 2"
TooFewRows_NoHeaderOnly(n) == n < 1
TooFewRows(n) == n < 2

\* "except UnicodeDecodeError" of the first read
CaughtAsDecodeError_Any(outcome) == outcome # "ok"
CaughtAsDecodeError(outcome) == outcome = "UnicodeDecodeError"

--------------------------------------------------------------------------
(* Initial states *)

Files(maxRows, maxCols, headers) ==
    { [nrows |-> 0, ncols |-> 0, header |-> <<>>] } \cup
    { [nrows |-> r, ncols |-> c, header |-> h] :
        r \in 1..maxRows, c \in 1..maxCols, h \in headers }

InitRun ==
    /\ pc = "get_file"
    /\ csv_path = ""
    /\ output_folder = ""
    /\ utf8_result = "none"
    /\ sjis_result = "none"
    /\ df = NoDf
    /\ index = 0
    /\ row = <<>>
    /\ email = <<>>
    /\ pdf_filename = <<>>
    /\ textbook_data = <<>>
    /\ col_index = 0
    /\ total_files = 0
    /\ skipped_rows = 0
    /\ files = {}
    /\ windows = <<>>
    /\ reads = {}
    /\ produced = {}
    /\ keysBuilt = {}
    /\ summary = <<>>
    /\ message = "none"

NoSan == s_in = <<>> /\ s_calls = 0 /\ s_out = <<>> /\ s_out2 = <<>>

\* batch runs: several data rows, at most one full window per row
Init ==
    /\ InitRun
    /\ NoSan
    /\ file \in Files(MaxRows, MaxCols, HeaderCells)

\* single-data-row runs: rows wide enough for two windows and a remainder
InitSegment ==
    /\ InitRun
    /\ NoSan
    /\ file \in Files(2, MaxSegCols, {<<"a">>})

--------------------------------------------------------------------------
(* create_pdf_from_csv *)

\* csv_path = get_file_path(); if not csv_path: return
GetFilePath ==
    /\ pc = "get_file"
    /\ \E p \in {"", "in.csv"} :
        /\ csv_path' = p
        /\ pc' = IF p = "" THEN "aborted" ELSE "get_folder"
        /\ message' = IF p = "" THEN "no_csv_selected" ELSE message
    /\ UNCHANGED <<file, output_folder, utf8_result, sjis_result, df, index,
                   row, email, pdf_filename, textbook_data, col_index,
                   total_files, skipped_rows, files, windows, reads,
                   produced, keysBuilt, summary, sanVars>>

\* output_folder = get_folder_path(); if not output_folder: return
GetFolderPath ==
    /\ pc = "get_folder"
    /\ \E p \in {"", "out"} :
        /\ output_folder' = p
        /\ pc' = IF p = "" THEN "aborted" ELSE "read_utf8"
        /\ message' = IF p = "" THEN "no_folder_selected" ELSE "paths"
    /\ UNCHANGED <<file, csv_path, utf8_result, sjis_result, df, index, row,
                   email, pdf_filename, textbook_data, col_index,
                   total_files, skipped_rows, files, windows, reads,
                   produced, keysBuilt, summary, sanVars>>

\* the outcomes pd.read_csv can have on the file: an empty file raises
\* EmptyDataError, an unopenable or unparsable one another Exception
ReadOutcomes(f) ==
    IF f.nrows = 0 THEN {"Exception"}
    ELSE {"ok", "UnicodeDecodeError", "Exception"}

\* pd.read_csv(..., encoding='utf-8') and the dispatch of its exception
ReadUtf8 ==
    /\ pc = "read_utf8"
    /\ \E outcome \in ReadOutcomes(file) :
        /\ utf8_result' = outcome
        /\ IF outcome = "ok"
           THEN /\ df' = [loaded |-> TRUE, nrows |-> file.nrows,
                          ncols |-> file.ncols]
                /\ pc' = "check_len"
           ELSE /\ df' = df
                /\ pc' = IF CaughtAsDecodeError(outcome)
                         THEN "read_sjis" ELSE "aborted"
        /\ message' = IF outcome = "ok" \/ CaughtAsDecodeError(outcome)
                      THEN message ELSE "read_error"
    /\ UNCHANGED <<file, csv_path, output_folder, sjis_result, index, row,
                   email, pdf_filename, textbook_data, col_index,
                   total_files, skipped_rows, files, windows, reads,
                   produced, keysBuilt, summary, sanVars>>

\* pd.read_csv(..., encoding='shift-jis') inside "except UnicodeDecodeError"
ReadSjis ==
    /\ pc = "read_sjis"
    /\ \E outcome \in {"ok", "Exception"} :
        /\ sjis_result' = outcome
        /\ IF outcome = "ok"
           THEN /\ df' = [loaded |-> TRUE, nrows |-> file.nrows,
                          ncols |-> file.ncols]
                /\ pc' = "check_len"
           ELSE /\ df' = df
                /\ pc' = "aborted"
        /\ message' = IF outcome = "ok" THEN message ELSE "read_error"
    /\ UNCHANGED <<file, csv_path, output_folder, utf8_result, index, row,
                   email, pdf_filename, textbook_data, col_index,
                   total_files, skipped_rows, files, windows, reads,
                   produced, keysBuilt, summary, sanVars>>

\* if len(df) < 2: return; total_files = 0; skipped_rows = 0; start of loop
CheckLen ==
    /\ pc = "check_len"
    /\ IF TooFewRows(df.nrows)
       THEN pc' = "aborted" /\ index' = index /\ message' = "too_few_rows"
       ELSE pc' = "loop" /\ index' = FirstDataIndex /\ message' = message
    /\ total_files' = 0
    /\ skipped_rows' = 0
    /\ UNCHANGED <<file, csv_path, output_folder, utf8_result, sjis_result,
                   df, row, email, pdf_filename, textbook_data, col_index,
                   files, windows, reads, produced, keysBuilt, summary,
                   sanVars>>

\* row 0 of the file, when the loop reads it
HeaderRow == <<file.header>> \o [i \in 1..(df.ncols - 1) |-> <<>>]

\* for index in range(1, len(df)): row = df.iloc[index]; email = row.iloc[0]
LoopNext ==
    /\ pc = "loop"
    /\ index < df.nrows
    /\ \E r \in (IF index = 0 THEN {HeaderRow} ELSE Rows(df.ncols)) :
        /\ row' = r
        /\ email' = Cell(r, 0)
    /\ pc' = "check_email"
    /\ UNCHANGED <<file, csv_path, output_folder, utf8_result, sjis_result,
                   df, index, pdf_filename, textbook_data, col_index,
                   total_files, skipped_rows, files, windows, reads,
                   produced, keysBuilt, summary, message, sanVars>>

\* the loop is exhausted
LoopExit ==
    /\ pc = "loop"
    /\ ~(index < df.nrows)
    /\ pc' = "summary"
    /\ UNCHANGED <<file, csv_path, output_folder, utf8_result, sjis_result,
                   df, index, row, email, pdf_filename, textbook_data,
                   col_index, total_files, skipped_rows, files, windows,
                   reads, produced, keysBuilt, summary, message, sanVars>>

\* "continue" or the end of the loop body: the loop variable advances.  The
\* variables local to the iteration are dead from here on (the next
\* iteration assigns each before reading it) and are cleared.
EndIteration ==
    /\ index' = index + 1
    /\ pc' = "loop"
    /\ row' = <<>>
    /\ email' = <<>>
    /\ pdf_filename' = <<>>
    /\ textbook_data' = <<>>
    /\ col_index' = 0
    /\ windows' = <<>>
    /\ reads' = {}

\* the empty-key check, then the file name and the start of the windows
CheckEmail ==
    /\ pc = "check_email"
    /\ IF EmailEmpty(email)
       THEN /\ skipped_rows' = skipped_rows + 1
            /\ message' = "skip_empty_email"
            /\ EndIteration
       ELSE /\ message' = message
            /\ pdf_filename' = sanitize_filename(AccountName(email) \o Suffix)
            /\ textbook_data' = <<>>
            /\ col_index' = 1
            /\ windows' = <<>>
            /\ reads' = {}
            /\ pc' = "window"
            /\ UNCHANGED <<skipped_rows, index, row, email>>
    /\ UNCHANGED <<file, csv_path, output_folder, utf8_result, sjis_result,
                   df, total_files, files, produced, keysBuilt, summary,
                   sanVars>>

\* one iteration of "while col_index + 3 < len(row)"
Window ==
    /\ pc = "window"
    /\ HasFullWindow(col_index, Len(row))
    /\ LET textbook_name == CellText(Cell(row, col_index))
           user_id == CellText(Cell(row, col_index + 1))
           password == CellText(Cell(row, col_index + 2))
           serial_code == CellText(Cell(row, col_index + 3))
       IN  textbook_data' =
             IF IsValidWindow(textbook_name, user_id, password, serial_code)
             THEN Append(textbook_data,
                         [name |-> textbook_name, id |-> user_id,
                          pass |-> password, serial |-> serial_code])
             ELSE textbook_data
    /\ col_index' = NextColIndex(col_index)
    /\ windows' = Append(windows, col_index)
    /\ reads' = reads \cup (col_index..(col_index + 3))
    /\ UNCHANGED <<pc, file, csv_path, output_folder, utf8_result,
                   sjis_result, df, index, row, email, pdf_filename,
                   total_files, skipped_rows, files, produced, keysBuilt,
                   summary, message, sanVars>>

\* the while condition is false
WindowsDone ==
    /\ pc = "window"
    /\ ~HasFullWindow(col_index, Len(row))
    /\ pc' = "check_data"
    /\ UNCHANGED <<file, csv_path, output_folder, utf8_result, sjis_result,
                   df, index, row, email, pdf_filename, textbook_data,
                   col_index, total_files, skipped_rows, files, windows,
                   reads, produced, keysBuilt, summary, message, sanVars>>

\* if not textbook_data: skipped_rows += 1; continue
CheckData ==
    /\ pc = "check_data"
    /\ IF NoValidData(textbook_data)
       THEN /\ skipped_rows' = skipped_rows + 1
            /\ message' = "skip_no_data"
            /\ EndIteration
       ELSE /\ pc' = "compose"
            /\ message' = "creating"
            /\ UNCHANGED <<skipped_rows, index, row, email, pdf_filename,
                           textbook_data, col_index, windows, reads>>
    /\ UNCHANGED <<file, csv_path, output_folder, utf8_result, sjis_result,
                   df, total_files, files, produced, keysBuilt, summary,
                   sanVars>>

\* SimpleDocTemplate(...), Paragraph(...), Table(...): outside any try, so
\* an exception of a constructor (Paragraph raises ValueError on text it
\* cannot parse as markup) leaves create_pdf_from_csv
Compose ==
    /\ pc = "compose"
    /\ \E raised \in BOOLEAN :
        pc' = IF raised THEN "crashed" ELSE "build"
    /\ UNCHANGED <<file, csv_path, output_folder, utf8_result, sjis_result,
                   df, index, row, email, pdf_filename, textbook_data,
                   col_index, total_files, skipped_rows, files, windows,
                   reads, produced, keysBuilt, summary, message, sanVars>>

\* try: doc.build(...); total_files += 1 / except Exception: print(...)
\* a failed build may leave a partly written file behind
Build ==
    /\ pc = "build"
    /\ \E outcome \in {"built", "failed", "failed_partial"} :
        IF outcome = "built"
        THEN /\ total_files' = total_files + 1
             /\ files' = files \cup {pdf_filename}
             /\ produced' = produced \cup {pdf_filename}
             /\ keysBuilt' = keysBuilt \cup {email}
             /\ message' = message
        ELSE /\ total_files' = total_files
             /\ files' = IF outcome = "failed_partial"
                         THEN files \cup {pdf_filename} ELSE files
             /\ produced' = produced
             /\ keysBuilt' = keysBuilt
             /\ message' = "build_error"
    /\ EndIteration
    /\ UNCHANGED <<file, csv_path, output_folder, utf8_result, sjis_result,
                   df, skipped_rows, summary, sanVars>>

\* the final report
Summary ==
    /\ pc = "summary"
    /\ summary' = <<total_files, skipped_rows>>
    /\ message' = "summary"
    /\ pc' = "done"
    /\ UNCHANGED <<file, csv_path, output_folder, utf8_result, sjis_result,
                   df, index, row, email, pdf_filename, textbook_data,
                   col_index, total_files, skipped_rows, files, windows,
                   reads, produced, keysBuilt, sanVars>>

Next ==
    \/ GetFilePath
    \/ GetFolderPath
    \/ ReadUtf8
    \/ ReadSjis
    \/ CheckLen
    \/ LoopNext
    \/ LoopExit
    \/ CheckEmail
    \/ Window
    \/ WindowsDone
    \/ CheckData
    \/ Compose
    \/ Build
    \/ Summary

Spec == Init /\ [][Next]_vars

SpecSegment == InitSegment /\ [][Next]_vars

--------------------------------------------------------------------------
(* sanitize_filename on its own: the argument is drawn from the strings of *)
(* at most MaxLen characters, and the function is applied once and twice.  *)

Strings(n) == UNION { [1..k -> Chars] : k \in 0..n }

InitSanitize ==
    /\ InitRun
    /\ file \in Files(0, 0, {})
    /\ s_in \in Strings(MaxLen)
    /\ s_calls = 0
    /\ s_out = <<>>
    /\ s_out2 = <<>>

SanitizeOnce ==
    /\ s_calls = 0
    /\ s_out' = sanitize_filename(s_in)
    /\ s_calls' = 1
    /\ UNCHANGED <<s_in, s_out2, runVars>>

SanitizeTwice ==
    /\ s_calls = 1
    /\ s_out2' = sanitize_filename(s_out)
    /\ s_calls' = 2
    /\ UNCHANGED <<s_in, s_out, runVars>>

NextSanitize ==
    \/ SanitizeOnce
    \/ SanitizeTwice

SpecSanitize == InitSanitize /\ [][NextSanitize]_vars

--------------------------------------------------------------------------
(* Vocabulary of the properties, defined from the cells of the file and    *)
(* not from the program's own operators.                                   *)

\* empty or made of whitespace only
Blank(c) == \A i \in 1..Len(c) : c[i] \in Whitespace

\* c without its leading and trailing whitespace
Trim(c) ==
    IF Blank(c) THEN <<>>
    ELSE LET solid == { i \in 1..Len(c) : c[i] \notin Whitespace }
             lo == CHOOSE i \in solid : \A j \in solid : i <= j
             hi == CHOOSE i \in solid : \A j \in solid : j <= i
         IN  SubSeq(c, lo, hi)

\* number of full groups of W cells after the first cell of r
WindowCount(r) == (Len(r) - 1) \div W

\* offset (counted from 0) of the k-th group, k = 1, 2, ...
WindowOffset(k) == 1 + (k - 1) * W

WindowValid(r, k) ==
    /\ ~Blank(r[WindowOffset(k) + 1])
    /\ ~Blank(r[WindowOffset(k) + 2])

WindowRecord(r, k) ==
    [name |-> Trim(r[WindowOffset(k) + 1]),
     id |-> Trim(r[WindowOffset(k) + 2]),
     pass |-> Trim(r[WindowOffset(k) + 3]),
     serial |-> Trim(r[WindowOffset(k) + 4])]

\* the records of the valid groups k, k+1, ... of r, in column order
RECURSIVE ValidRecordsFrom(_, _)
ValidRecordsFrom(r, k) ==
    IF k > WindowCount(r) THEN <<>>
    ELSE (IF WindowValid(r, k) THEN <<WindowRecord(r, k)>> ELSE <<>>)
         \o ValidRecordsFrom(r, k + 1)

NoValidWindow(r) == \A k \in 1..WindowCount(r) : ~WindowValid(r, k)

\* the part of key k before its first '@', all of k when it has none
LocalPart(k) ==
    LET ats == { i \in 1..Len(k) : k[i] = "@" }
    IN  IF ats = {} THEN k
        ELSE SubSeq(k, 1, (CHOOSE i \in ats : \A j \in ats : i <= j) - 1)

\* s with every forbidden character replaced by underscore
Underscored(s) ==
    [i \in 1..Len(s) |-> IF s[i] \in Forbidden THEN "_" ELSE s[i]]

\* the account identifier in a generated file name
Identifier(f) == SubSeq(f, 1, Len(f) - Len(Suffix))

AbortMessages ==
    {"no_csv_selected", "no_folder_selected", "read_error", "too_few_rows"}

\* positions of the loop body and after
RowPcs == {"check_email", "window", "check_data", "compose", "build"}
ProcessingPcs == RowPcs \cup {"loop", "summary", "done", "crashed"}

--------------------------------------------------------------------------
(* Claims *)

\* C1: each window evaluated by the segmenter appends a record exactly when
\* its name and id cells are both non-blank; the password and serial cells
\* play no part; the record appended holds the four trimmed cells.
C1_RecordIffNameAndId ==
    [][ (pc = "window" /\ col_index' # col_index) =>
          LET name == row[col_index + 1]
              id == row[col_index + 2]
              pass == row[col_index + 3]
              serial == row[col_index + 4]
          IN  IF ~Blank(name) /\ ~Blank(id)
              THEN textbook_data' =
                     Append(textbook_data,
                            [name |-> Trim(name), id |-> Trim(id),
                             pass |-> Trim(pass), serial |-> Trim(serial)])
              ELSE textbook_data' = textbook_data ]_vars

\* C1 witness: a window with empty password and serial cells gave a record
C1_Witness ==
    /\ pc = "window"
    /\ Len(windows) = 1
    /\ Len(textbook_data) = 1
    /\ textbook_data[1].pass = <<>>
    /\ textbook_data[1].serial = <<>>
    /\ textbook_data[1].name = <<"u">>

\* C2: a data row whose first cell is blank produces no document and adds
\* exactly one to skipped_rows; only rows of index >= 1 are processed, and
\* the counters are both 0 when the first data row is reached.
C2_EmptyKeyRowSkipped ==
    [][ /\ (pc = "check_email" /\ Blank(row[1])) =>
              /\ skipped_rows' = skipped_rows + 1
              /\ total_files' = total_files
              /\ files' = files
              /\ produced' = produced
              /\ pc' = "loop"
              /\ index' = index + 1
        /\ pc' \in RowPcs => (index' >= 1 /\ index' < df'.nrows)
        /\ (pc' = "loop" /\ index' = 1) =>
              (total_files' = 0 /\ skipped_rows' = 0 /\ files' = {}) ]_vars

\* C2 witness: two rows with a blank key were skipped, nothing was written
C2_Witness ==
    /\ pc = "loop"
    /\ index = 3
    /\ message = "skip_empty_email"
    /\ skipped_rows = 2
    /\ total_files = 0
    /\ files = {}
    /\ file.header # <<>>

\* C3: for a row with a non-blank key, if no window yields a record the row
\* is skipped (exactly +1, nothing composed or written); otherwise
\* skipped_rows is left alone by every step of the row; a document is only
\* composed or built from a non-empty record list.
C3_EmptyBundleNeverEmitted ==
    [][ /\ pc = "check_data" =>
              IF NoValidWindow(row)
              THEN /\ skipped_rows' = skipped_rows + 1
                   /\ total_files' = total_files
                   /\ files' = files
                   /\ pc' = "loop"
                   /\ index' = index + 1
              ELSE /\ skipped_rows' = skipped_rows
                   /\ pc' = "compose"
        /\ pc \in {"window", "compose", "build"} =>
              skipped_rows' = skipped_rows
        /\ pc' \in {"compose", "build"} =>
              (textbook_data' # <<>> /\ ~Blank(row'[1])) ]_vars

\* C3 witness: a row of two windows, one dropped and one valid, is composed
\* without having been counted as skipped
C3_Witness ==
    /\ pc = "compose"
    /\ Len(windows) = 2
    /\ Len(textbook_data) = 1
    /\ skipped_rows = 0

\* C4: the windows evaluated are those at offsets 1, 1+W, ... with W full
\* cells in the row, floor((n-1)/W) of them; no cell index >= n is read;
\* the record list is the valid windows in ascending column order.
C4_FullWindowsOnly ==
    /\ \A i \in reads : i >= 1 /\ i < Len(row)
    /\ pc = "window" =>
          /\ Len(windows) <= WindowCount(row)
          /\ \A k \in 1..Len(windows) : windows[k] = WindowOffset(k)
    /\ pc \in {"check_data", "compose", "build"} =>
          /\ windows = [k \in 1..WindowCount(row) |-> WindowOffset(k)]
          /\ reads = 1..(WindowCount(row) * W)
          /\ textbook_data = ValidRecordsFrom(row, 1)

\* C4 witness: a row of 8 cells: one full window, and a remainder of three
\* filled cells that is left out of the record list
C4_Witness ==
    /\ pc = "check_data"
    /\ Len(row) = 8
    /\ Len(windows) = 1
    /\ Len(textbook_data) = 1
    /\ \A i \in 6..8 : ~Blank(row[i])

\* C5: a failure at any step of composing or writing one document is caught
\* and does not abort the batch: the run never ends in an uncaught exception.
C5_FailureIsolation == pc # "crashed"

\* C6: when the run completes, the documents produced plus the rows counted
\* as skipped or failed equal the number of data rows.
C6_AllRowsAccounted ==
    pc = "done" => summary[1] + summary[2] = df.nrows - 1

\* C7: a fatal precondition failure ends the run before any row is
\* processed: an aborted run has no output file, no row read and both
\* counters at 0, and no run gets to the rows without an input path, an
\* output folder and a table of at least two rows.
C7_FatalAbortsEarly ==
    /\ pc = "aborted" =>
          /\ message \in AbortMessages
          /\ files = {} /\ produced = {}
          /\ total_files = 0 /\ skipped_rows = 0
          /\ index = 0 /\ row = <<>> /\ summary = <<>>
    /\ pc \in ProcessingPcs =>
          /\ csv_path # "" /\ output_folder # ""
          /\ df.loaded /\ df.nrows >= 2
    /\ pc \in {"read_utf8", "read_sjis", "check_len"} =>
          (csv_path # "" /\ output_folder # "")

\* C7 witness: a table holding a header row only aborted the run
C7_Witness ==
    /\ pc = "aborted"
    /\ message = "too_few_rows"
    /\ df.loaded
    /\ df.nrows = 1

\* C8: UTF-8 is tried first and Shift-JIS only after UTF-8 raised a decoding
\* error; a table read by either attempt is the table of the file and the
\* run goes on; if both fail, or UTF-8 fails otherwise, the run aborts with
\* the error reported and no row processed.
C8_DecoderFallback ==
    /\ utf8_result = "none" => (sjis_result = "none" /\ ~df.loaded)
    /\ sjis_result # "none" => utf8_result = "UnicodeDecodeError"
    /\ pc = "read_sjis" =>
          (utf8_result = "UnicodeDecodeError" /\ sjis_result = "none")
    /\ df.loaded <=> (utf8_result = "ok" \/ sjis_result = "ok")
    /\ df.loaded => (df.nrows = file.nrows /\ df.ncols = file.ncols)
    /\ (utf8_result = "Exception" \/ sjis_result = "Exception") =>
          /\ pc = "aborted"
          /\ message = "read_error"
          /\ index = 0 /\ row = <<>> /\ files = {}
    /\ (sjis_result = "ok" /\ pc = "aborted") => df.nrows < 2

\* C8 witness: a run on a table read as Shift-JIS completed with a document
C8_Witness ==
    /\ sjis_result = "ok"
    /\ utf8_result = "UnicodeDecodeError"
    /\ pc = "done"
    /\ total_files >= 1

\* C9: sanitize_filename keeps the length, leaves no forbidden character,
\* changes exactly the forbidden characters (to underscore), and applying
\* it a second time changes nothing.
C9_SanitizeIdempotent ==
    /\ s_calls >= 1 =>
          /\ Len(s_out) = Len(s_in)
          /\ \A i \in 1..Len(s_in) :
                /\ s_out[i] \notin Forbidden
                /\ s_in[i] \notin Forbidden => s_out[i] = s_in[i]
                /\ s_in[i] \in Forbidden => s_out[i] = "_"
    /\ s_calls = 2 => s_out2 = s_out

\* C9 witness: a string with a forbidden character was sanitized twice
C9_Witness ==
    /\ s_calls = 2
    /\ s_in = <<"a", "|">>
    /\ s_out2 = <<"a", "_">>

\* C10 as stated: after a completed run the identifiers in the generated
\* file names are the local-parts of the keys of the rows that got a
\* document.
C10_IdentifiersAreLocalParts ==
    pc = "done" =>
        { Identifier(f) : f \in produced } = { LocalPart(k) : k \in keysBuilt }

\* C10 as amended: after a completed run the identifiers in the file names
\* of the documents built are the local-parts, with each forbidden
\* character replaced by underscore, of the keys of the rows whose build
\* succeeded; every such file name ends with the fixed suffix; the distinct
\* file names are at most as many as the documents counted.
C10_IdentifiersAreSanitizedLocalParts ==
    pc = "done" =>
        /\ { Identifier(f) : f \in produced } =
              { Underscored(LocalPart(k)) : k \in keysBuilt }
        /\ \A f \in produced : f = Identifier(f) \o Suffix
        /\ Cardinality(produced) <= total_files
        /\ produced \subseteq files

\* C10 witness: two rows of the same local-part were both built, one file
C10_Witness ==
    /\ pc = "done"
    /\ total_files = 2
    /\ Cardinality(keysBuilt) = 2
    /\ Cardinality(produced) = 1
    /\ \E f \in produced : Identifier(f) = <<"a">>

==========================================================================
